---- MODULE Spec2Model ----
(***************************************************************************)
(* Model of utils/utils.py: the GraphPlotter class (a stateful wrapper     *)
(* around pyplot that keeps one "current figure") and the function         *)
(* print_data_from_txt (a whitespace-delimited text file parsed into a     *)
(* styled table).                                                          *)
(*                                                                         *)
(* Spec       : one GraphPlotter instance, the pyplot figure registry and  *)
(*              the part of the file system below the working directory.   *)
(* SpecTable  : print_data_from_txt applied to a bounded set of files.     *)
(***************************************************************************)
EXTENDS Integers, Sequences, FiniteSets, TLC

VARIABLES
    constructed,     \* "new" before __init__, "ready" after it, "failed" if it raised
    base_dir,        \* self.base_dir, a path (sequence of components)
    current_figure,  \* self.current_figure: None or a figure id
    current_axes,    \* self.current_axes: None or the id of the figure owning the axes
    figs,            \* figure id -> the series drawn on its axes, for every figure created
    registry,        \* pyplot's registry of open (not yet closed) figures
    nfigs,           \* how many figures plt.subplots has created so far
    dirs,            \* file system: the directories that exist
    files,           \* file system: path -> content of the regular files that exist
    last,            \* outcome of the most recent call: operation, exception, message, path
    sinceCreate,     \* history: series added successfully since the latest plt.subplots
    input,           \* print_data_from_txt: the file (header count, rows of tokens, gradient)
    result           \* print_data_from_txt: what the call produced

vars == <<constructed, base_dir, current_figure, current_axes, figs, registry,
          nfigs, dirs, files, last, sinceCreate, input, result>>

plotVars == <<constructed, base_dir, current_figure, current_axes, figs, registry,
              nfigs, dirs, files, last, sinceCreate>>

tableVars == <<input, result>>

-----------------------------------------------------------------------------
(* Bounds *)

\* figures one run creates, series it draws over all its figures, and depth
\* of the sub-directory given to save
MaxFigures == 2
MaxSeries == 3
MaxDepth == 2

-----------------------------------------------------------------------------
(* Values *)

\* the empty slot; figure ids are 1, 2, ...
None == 0

\* Components of the nested sub-directory path used by save.
DirNames == <<"a", "b", "c", "d">>

Prefix(s, k) == SubSeq(s, 1, k)

\* The sub-directories passed to save: "", "a", "a/b", ...
Subdirs == { Prefix(DirNames, k) : k \in 0..MaxDepth }

\* default base_dir of __init__
DefaultBaseDir == <<"graphs">>

Filenames == {"plot.png", "plot.xyz"}

\* file name extensions the canvas can write
SupportedFormat(filename) == filename = "plot.png"

\* content of a file that was not written by this instance
Foreign == <<"foreign">>

Cwd == << >>

Parent(p) == SubSeq(p, 1, Len(p) - 1)

NoFile == [p \in {} |-> << >>]

OneFile(p, c) == [q \in {p} |-> c]

\* The file systems the program may be started in.
InitFS ==
    { [dirs |-> {Cwd}, files |-> NoFile],
      [dirs |-> {Cwd}, files |-> OneFile(DefaultBaseDir, Foreign)],
      [dirs |-> {Cwd, DefaultBaseDir, DefaultBaseDir \o <<"a">>,
                 DefaultBaseDir \o <<"plot.png">>},
       files |-> [p \in {DefaultBaseDir \o <<"a", "plot.png">>,
                         DefaultBaseDir \o <<"a", "b">>} |-> Foreign]] }

\* what a call did: the operation, the exception type ("none" if it returned), the
\* message raised or printed and the path the message names; args is the subdir and
\* filename of a save that returned or failed to make its directory
Result(op, type, msg, path) ==
    [op |-> op, args |-> << >>, type |-> type, msg |-> msg, path |-> path]

WithArgs(r, subdir, filename) == [r EXCEPT !.args = subdir \o <<filename>>]

Ok(op) == Result(op, "none", "", << >>)

-----------------------------------------------------------------------------
(* Path.mkdir(parents=True, exist_ok=True) *)

RECURSIVE Mkdir(_, _, _)
Mkdir(p, D, F) ==
    IF p \in D THEN [ok |-> TRUE, dirs |-> D]
    ELSE IF p \in DOMAIN F THEN [ok |-> FALSE, dirs |-> D]
    ELSE IF Parent(p) \in DOMAIN F THEN [ok |-> FALSE, dirs |-> D]
    ELSE IF Parent(p) \in D THEN [ok |-> TRUE, dirs |-> D \cup {p}]
    ELSE LET r == Mkdir(Parent(p), D, F)
         IN  IF r.ok THEN [ok |-> TRUE, dirs |-> r.dirs \cup {p}]
             ELSE [ok |-> FALSE, dirs |-> D]

\* the exception _ensure_directory_exists raises for a failed mkdir
EnsureDirectoryError_raw(op, path) == Result(op, "OSError", "", << >>)

EnsureDirectoryError(op, path) ==
    Result(op, "RuntimeError", "Failed to create directory", path)

\* save_dir = self.base_dir / subdir
SaveDir_flat(base, subdir) == base

SaveDir(base, subdir) == base \o subdir

\* save_path = save_dir / filename
SavePath(save_dir, filename) == save_dir \o <<filename>>

\* savefig opens the target for writing
WriteFile(F, p, c) == [q \in DOMAIN F \cup {p} |-> IF q = p THEN c ELSE F[q]]

-----------------------------------------------------------------------------
(* Guards and resets of the "current figure" slot *)

AxesIsNone_off(axes) == FALSE

AxesIsNone(axes) == axes = None

FigureIsNone(fig) == fig = None

ResetFigure_keep(fig) == fig

ResetFigure(fig) == None

ResetAxes_keep(axes) == axes

ResetAxes(axes) == None

\* axes.plot / axes.scatter put one more artist on the axes
AddSeries(series, s) == Append(series, s)

\* how many series have been drawn so far, over all figures
RECURSIVE SeriesUpTo(_, _)
SeriesUpTo(F, k) == IF k = 0 THEN 0 ELSE Len(F[k]) + SeriesUpTo(F, k - 1)

SeriesDrawn(F) == SeriesUpTo(F, Len(F))

\* plt.subplots makes a new, empty figure
NewFigure_reuse(n, cur) == IF cur = None THEN n + 1 ELSE cur

NewFigure(n, cur) == n + 1

-----------------------------------------------------------------------------
(* GraphPlotter *)

InitPlot ==
    /\ constructed = "new"
    /\ base_dir = DefaultBaseDir
    /\ current_figure = None
    /\ current_axes = None
    /\ figs = << >>
    /\ registry = {}
    /\ nfigs = 0
    /\ \E fs \in InitFS : dirs = fs.dirs /\ files = fs.files
    /\ last = Ok("start")
    /\ sinceCreate = << >>

\* GraphPlotter.__init__
Construct ==
    /\ constructed = "new"
    /\ LET r == Mkdir(base_dir, dirs, files)
       IN  IF r.ok
           THEN /\ constructed' = "ready"
                /\ dirs' = r.dirs
                /\ last' = Ok("__init__")
           ELSE /\ constructed' = "failed"
                /\ dirs' = dirs
                /\ last' = EnsureDirectoryError("__init__", base_dir)
    /\ UNCHANGED <<base_dir, current_figure, current_axes, figs, registry, nfigs,
                   files, sinceCreate, tableVars>>

\* GraphPlotter.create_figure; fail says which library call raises, if any
create_figure ==
    /\ constructed = "ready"
    /\ \E fail \in {"none", "subplots", "style"} :
         IF fail = "subplots"
         THEN /\ last' = Result("create_figure", "ValueError", "", << >>)
              /\ UNCHANGED <<current_figure, current_axes, figs, registry, nfigs,
                             sinceCreate>>
         ELSE /\ nfigs < MaxFigures
              /\ LET f == NewFigure(nfigs, current_figure)
                 IN  /\ current_figure' = f
                     /\ current_axes' = f
                     /\ figs' = IF f \in DOMAIN figs THEN figs
                                ELSE [g \in DOMAIN figs \cup {f} |->
                                        IF g = f THEN << >> ELSE figs[g]]
                     /\ registry' = registry \cup {f}
              /\ nfigs' = nfigs + 1
              /\ sinceCreate' = << >>
              /\ last' = IF fail = "style"
                         THEN Result("create_figure", "TypeError", "", << >>)
                         ELSE Ok("create_figure")
    /\ UNCHANGED <<constructed, base_dir, dirs, files, tableVars>>

\* body shared by add_plot and add_scatter
AddTo(op, kind) ==
    /\ constructed = "ready"
    /\ IF AxesIsNone(current_axes)
       THEN /\ last' = Result(op, "RuntimeError",
                              "Call create_figure() before adding plots", << >>)
            /\ UNCHANGED <<figs, sinceCreate>>
       ELSE IF current_axes = None
       THEN /\ last' = Result(op, "AttributeError", "", << >>)
            /\ UNCHANGED <<figs, sinceCreate>>
       ELSE \E dataOk \in BOOLEAN :
            IF ~dataOk
            THEN /\ last' = Result(op, "ValueError", "", << >>)
                 /\ UNCHANGED <<figs, sinceCreate>>
            ELSE /\ SeriesDrawn(figs) < MaxSeries
                 /\ figs' = [figs EXCEPT ![current_axes] = AddSeries(@, kind)]
                 /\ sinceCreate' = Append(sinceCreate, kind)
                 /\ last' = Ok(op)
    /\ UNCHANGED <<constructed, base_dir, current_figure, current_axes, registry,
                   nfigs, dirs, files, tableVars>>

\* GraphPlotter.add_plot
add_plot == AddTo("add_plot", "line")

\* GraphPlotter.add_scatter
add_scatter == AddTo("add_scatter", "scatter")

\* GraphPlotter.save.  plt.show() displays the figure and leaves its artists in
\* place, so the show argument does not appear here.
save ==
    /\ constructed = "ready"
    /\ IF FigureIsNone(current_figure)
       THEN /\ last' = Result("save", "RuntimeError", "No active figure to save", << >>)
            /\ UNCHANGED <<current_figure, current_axes, registry, dirs, files>>
       ELSE
       \E subdir \in Subdirs, filename \in Filenames, legend \in BOOLEAN :
       \E legendOptsOk \in (IF legend THEN BOOLEAN ELSE {TRUE}) :
         LET save_dir == SaveDir(base_dir, subdir)
             r == Mkdir(save_dir, dirs, files)
             save_path == SavePath(save_dir, filename)
             Raise(type) == Result("save", type, "", << >>)
         IN
         IF ~r.ok
         THEN /\ last' = WithArgs(EnsureDirectoryError("save", save_dir), subdir, filename)
              /\ UNCHANGED <<current_figure, current_axes, registry, dirs, files>>
         ELSE IF legend /\ (current_axes = None \/ ~legendOptsOk)
         THEN /\ last' = Raise(IF current_axes = None THEN "AttributeError"
                               ELSE "TypeError")
              /\ dirs' = r.dirs
              /\ UNCHANGED <<current_figure, current_axes, registry, files>>
         ELSE IF current_figure = None
         THEN /\ last' = Raise("AttributeError")
              /\ dirs' = r.dirs
              /\ UNCHANGED <<current_figure, current_axes, registry, files>>
         ELSE IF ~SupportedFormat(filename)
         THEN /\ last' = Raise("ValueError")
              /\ dirs' = r.dirs
              /\ UNCHANGED <<current_figure, current_axes, registry, files>>
         ELSE IF save_path \in r.dirs
         THEN /\ last' = Raise("IsADirectoryError")
              /\ dirs' = r.dirs
              /\ UNCHANGED <<current_figure, current_axes, registry, files>>
         ELSE /\ dirs' = r.dirs
              /\ files' = WriteFile(files, save_path, figs[current_figure])
              /\ registry' = registry \ {current_figure}
              /\ current_figure' = ResetFigure(current_figure)
              /\ current_axes' = ResetAxes(current_axes)
              /\ last' = WithArgs(Result("save", "none", "Plot saved", save_path),
                                  subdir, filename)
    /\ UNCHANGED <<constructed, base_dir, figs, nfigs, sinceCreate, tableVars>>

-----------------------------------------------------------------------------
(* Properties of GraphPlotter *)

Ready == constructed = "ready"

\* the spec's two states of the plot session
Idle == Ready /\ current_figure = None

FigureOpen == Ready /\ current_figure # None

UsageMessages ==
    {"Call create_figure() before adding plots", "No active figure to save"}

Prefixes(p) == { Prefix(p, k) : k \in 0..Len(p) }

Front(s) == SubSeq(s, 1, Len(s) - 1)

\* a step in which save returned normally
SaveReturns == FigureOpen /\ last'.op = "save" /\ last'.type = "none"

\* C1: in Idle, add_plot, add_scatter and save raise the usage RuntimeError and
\* change neither the session state nor the file system.
C1_IdleCallsAreUsageErrors ==
    [][(Idle /\ last'.op \in {"add_plot", "add_scatter", "save"})
         => /\ last'.type = "RuntimeError"
            /\ last'.msg \in UsageMessages
            /\ UNCHANGED <<constructed, current_figure, current_axes, figs,
                           registry, dirs, files>>]_vars

C1_Witness ==
    /\ Idle /\ nfigs >= 1
    /\ last.op = "save" /\ last.type = "RuntimeError"
    /\ \E p \in DOMAIN files : files[p] # Foreign

\* C2: a save that returns leaves both slots empty, and a create_figure that
\* returns leaves a figure that did not exist before and carries no series.
C2_SaveResetsAndCreateIsFresh ==
    [][/\ SaveReturns => (current_figure' = None /\ current_axes' = None)
       /\ (Ready /\ last'.op = "create_figure" /\ last'.type = "none")
            => /\ current_figure' # None
               /\ current_axes' = current_figure'
               /\ current_figure' \notin DOMAIN figs
               /\ figs'[current_figure'] = << >>]_vars

C2_Witness ==
    /\ FigureOpen /\ last.op = "create_figure" /\ last.type = "none"
    /\ figs[current_figure] = << >>
    /\ \E p \in DOMAIN files : files[p] # Foreign /\ files[p] # << >>

\* C3: exactly one figure of this instance is open in the plotting library
\* while Figure-Open and none while Idle.
C3_AtMostOneOpenFigure ==
    /\ current_figure # None => registry = {current_figure}
    /\ current_figure = None => registry = {}

\* C7: a save that returns leaves every directory on base_dir/subdir existing
\* and the figure written at base_dir/subdir/filename; no other file changes
\* and no other directory appears or disappears.
C7_SavePlacesOneFile ==
    [][SaveReturns =>
         LET save_dir == base_dir \o Front(last'.args)
             target == base_dir \o last'.args
         IN  /\ Prefixes(save_dir) \subseteq dirs'
             /\ dirs \subseteq dirs'
             /\ dirs' \ dirs \subseteq Prefixes(save_dir)
             /\ DOMAIN files' = DOMAIN files \cup {target}
             /\ files'[target] = figs[current_figure]
             /\ \A q \in DOMAIN files \ {target} : files'[q] = files[q]]_vars

C7_Witness ==
    /\ last.op = "save" /\ last.type = "none"
    /\ Len(last.args) = MaxDepth + 1
    /\ nfigs = 1
    /\ DOMAIN files = {base_dir \o last.args}

\* some component of the path is a regular file, so the directory cannot be made
Blocked(p) == \E k \in 1..Len(p) : Prefix(p, k) \in DOMAIN files

\* a save step that returns normally
SaveSucceeds == save /\ last'.type = "none"

\* C8: a failed directory creation raises a RuntimeError naming the path; in
\* save it writes no file and keeps the figure and its series, and a save
\* that succeeds is still possible afterwards.
C8_MkdirFailureIsWrapped ==
    /\ [][/\ (constructed = "new" /\ last'.op = "__init__" /\ Blocked(base_dir))
               => /\ last'.type = "RuntimeError"
                  /\ last'.path = base_dir
          /\ (FigureOpen /\ last'.op = "save" /\ last'.args # << >>
                /\ Blocked(base_dir \o Front(last'.args)))
               => /\ last'.type = "RuntimeError"
                  /\ last'.path = base_dir \o Front(last'.args)
                  /\ UNCHANGED <<files, current_figure, current_axes, figs>>]_vars
    /\ []((FigureOpen /\ last.op = "save" /\ last.msg = "Failed to create directory")
            => ENABLED SaveSucceeds)

C8_Witness ==
    /\ FigureOpen /\ last.op = "save" /\ last.type = "RuntimeError"
    /\ last.path = base_dir \o Front(last.args)
    /\ figs[current_figure] # << >>

\* C9: the file a save writes holds exactly the series added since the most
\* recent create_figure, in the order they were added.
C9_FileHoldsSeriesSinceCreate ==
    [][SaveReturns => files'[last'.path] = sinceCreate]_vars

C9_Witness ==
    /\ last.op = "save" /\ last.type = "none"
    /\ files[last.path] = <<"line", "scatter">>
    /\ \E g \in DOMAIN figs : g \in registry /\ figs[g] # << >>

\* C10: current_figure is empty exactly when current_axes is empty.
C10_FigureAndAxesAgree == (current_figure = None) <=> (current_axes = None)

C10_Witness ==
    /\ FigureOpen /\ current_axes # None
    /\ last.op = "save" /\ last.type \notin {"none", "RuntimeError"}
    /\ nfigs >= 2

-----------------------------------------------------------------------------
(* print_data_from_txt: strings are sequences of one-character strings *)

\* header columns, data rows and fields per data row of an input file
MaxCols == 2
MaxRows == 2
MaxFields == 2

\* numbers are kept exactly, as multiples of 10^-5
Scale == 10 * 10 * 10 * 10 * 10

DigitChars == <<"0", "1", "2", "3", "4", "5", "6", "7", "8", "9">>

IsDigit(c) == \E i \in 1..10 : DigitChars[i] = c

DigitVal(c) == (CHOOSE i \in 1..10 : DigitChars[i] = c) - 1

INF == <<"i", "n", "f">>

NP_INF == <<"n", "p", ".", "i", "n", "f">>

\* the tokens that occur in the data rows of the input files
Tokens ==
    { <<"0">>,
      <<"1", ".", "2", "3", "4", "5", "6">>,
      INF,
      <<"[", "i", "n", "f", "]">>,
      <<"a", "b", "c">> }

StartsWith(s, t) == Len(s) >= Len(t) /\ SubSeq(s, 1, Len(t)) = t

Drop(s, k) == SubSeq(s, k + 1, Len(s))

\* t in s
Contains(s, t) == \E i \in 0..(Len(s) - Len(t)) : SubSeq(s, i + 1, i + Len(t)) = t

\* str.replace("inf", "np.inf")
RECURSIVE Replace(_)
Replace(s) ==
    IF s = << >> THEN << >>
    ELSE IF StartsWith(s, INF) THEN NP_INF \o Replace(Drop(s, 3))
    ELSE <<Head(s)>> \o Replace(Tail(s))

AllDigits(s) == \A i \in 1..Len(s) : IsDigit(s[i])

Unsigned(s) == IF s # << >> /\ Head(s) \in {"-", "+"} THEN Tail(s) ELSE s

Negative(s) == s # << >> /\ Head(s) = "-"

\* position of the decimal point, or Len + 1 if there is none
PointAt(s) ==
    IF \E i \in 1..Len(s) : s[i] = "."
    THEN CHOOSE i \in 1..Len(s) : s[i] = "."
    ELSE Len(s) + 1

\* the decimal literals float() accepts (no exponent, no underscore)
IsDecimal(u) ==
    LET k == PointAt(u)
        ip == SubSeq(u, 1, k - 1)
        fp == SubSeq(u, k + 1, Len(u))
    IN  /\ AllDigits(ip) /\ AllDigits(fp)
        /\ Len(ip) + Len(fp) >= 1

\* the strings float() converts: decimal literals, inf, infinity and nan
IsFloatLiteral(s) ==
    LET u == Unsigned(s)
    IN  \/ IsDecimal(u)
        \/ u \in {INF, <<"n", "a", "n">>, <<"i", "n", "f", "i", "n", "i", "t", "y">>}

RECURSIVE DigitsToInt(_)
DigitsToInt(d) ==
    IF d = << >> THEN 0 ELSE 10 * DigitsToInt(SubSeq(d, 1, Len(d) - 1)) + DigitVal(d[Len(d)])

Pow10(k) == IF k = 0 THEN 1 ELSE IF k = 1 THEN 10 ELSE IF k = 2 THEN 100
            ELSE IF k = 3 THEN 1000 ELSE IF k = 4 THEN 10000 ELSE 100000

Num(v) == [kind |-> "num", v |-> v]

PosInf == [kind |-> "inf", v |-> 1]

NegInf == [kind |-> "inf", v |-> -1]

NaN == [kind |-> "nan", v |-> 0]

\* a Python list object in a cell
ListValue == [kind |-> "list", v |-> 0]

Raised(type) == [kind |-> "error", v |-> 0, type |-> type]

IsError(x) == x.kind = "error"

Negate(x) == IF x.kind \in {"num", "inf"} THEN [x EXCEPT !.v = -x.v] ELSE x

\* float(v), for literals of at most five decimals
ToFloat(s) ==
    LET u == Unsigned(s)
        k == PointAt(u)
        ip == SubSeq(u, 1, k - 1)
        fp == SubSeq(u, k + 1, Len(u))
        mag == DigitsToInt(ip) * Scale + DigitsToInt(fp) * Pow10(5 - Len(fp))
    IN  IF ~IsFloatLiteral(s) THEN Raised("ValueError")
        ELSE IF u = <<"n", "a", "n">> THEN NaN
        ELSE IF ~IsDecimal(u) THEN (IF Negative(s) THEN NegInf ELSE PosInf)
        ELSE Num(IF Negative(s) THEN -mag ELSE mag)

\* eval(v) for the expressions the tokens turn into: np.inf, a negation, a
\* list display; anything else raises (SyntaxError stands for the syntax, name
\* and attribute errors of eval)
RECURSIVE EvalPy(_)
EvalPy(e) ==
    IF e = NP_INF THEN PosInf
    ELSE IF Len(e) >= 2 /\ Head(e) = "-"
    THEN LET r == EvalPy(Tail(e))
         IN  IF IsError(r) THEN r
             ELSE IF r.kind = "list" THEN Raised("TypeError")
             ELSE Negate(r)
    ELSE IF Len(e) >= 3 /\ Head(e) = "[" /\ e[Len(e)] = "]"
    THEN LET r == EvalPy(SubSeq(e, 2, Len(e) - 1))
         IN  IF IsError(r) THEN r ELSE ListValue
    ELSE Raised("SyntaxError")

\* eval(v) if "np.inf" in v else float(v), after the replace
Convert(token) ==
    LET v == Replace(token)
    IN  IF Contains(v, NP_INF) THEN EvalPy(v) ELSE ToFloat(v)

ConvertRow(row) == [j \in 1..Len(row) |-> Convert(row[j])]

Max(S) == CHOOSE x \in S : \A y \in S : y <= x

\* pd.DataFrame(data, columns=headers): the rows are padded with NaN to the
\* longest row, and that width must equal the number of columns
FrameWidth(data) == IF data = << >> THEN 0 ELSE Max({ Len(data[i]) : i \in 1..Len(data) })

FrameAccepts(data, n) == data = << >> \/ FrameWidth(data) = n

Frame(data, n) ==
    [i \in 1..Len(data) |->
       [j \in 1..n |-> IF j <= Len(data[i]) THEN data[i][j] ELSE NaN]]

RECURSIVE IntToDigits(_)
IntToDigits(k) ==
    IF k < 10 THEN <<DigitChars[k + 1]>>
    ELSE IntToDigits(k \div 10) \o <<DigitChars[(k % 10) + 1]>>

\* k written with exactly w digits
RECURSIVE Padded(_, _)
Padded(k, w) == IF w = 0 THEN << >> ELSE Padded(k \div 10, w - 1) \o <<DigitChars[(k % 10) + 1]>>

RECURSIVE StripZeros(_)
StripZeros(d) ==
    IF Len(d) > 1 /\ d[Len(d)] = "0" THEN StripZeros(SubSeq(d, 1, Len(d) - 1)) ELSE d

Abs(v) == IF v < 0 THEN -v ELSE v

\* np.round(x, 3), in thousandths, half to even
Round3(v) ==
    LET a == Abs(v)
        q == a \div 100
        r == a % 100
        m == IF r > 50 \/ (r = 50 /\ q % 2 = 1) THEN q + 1 ELSE q
    IN  IF v < 0 THEN -m ELSE m

Sign(v) == IF v < 0 THEN <<"-">> ELSE << >>

\* str() of a float that is a whole number of thousandths: shortest form
StrThousandths(m) ==
    Sign(m) \o IntToDigits(Abs(m) \div 1000) \o <<".">> \o StripZeros(Padded(Abs(m) % 1000, 3))

StrNonFinite(x) ==
    IF x.kind = "nan" THEN <<"n", "a", "n">>
    ELSE IF x.kind = "list" THEN <<"[", "i", "n", "f", "]">>
    ELSE IF x.v < 0 THEN <<"-">> \o INF ELSE INF

\* format_value
format_value(x) ==
    IF x = PosInf THEN INF
    ELSE IF x.kind = "num" THEN StrThousandths(Round3(x.v))
    ELSE StrNonFinite(x)

\* the Styler's display function for a cell no formatter is set for: six decimals
DefaultFormat(x) ==
    IF x.kind = "num"
    THEN Sign(x.v) \o IntToDigits(Abs(x.v) \div Scale) \o <<".">>
           \o Padded(Abs(x.v) % Scale, 5) \o <<"0">>
    ELSE StrNonFinite(x)

\* for col in df.columns: styled_df.format({col: format_value}).  A format call
\* with a dict either leaves the other columns' display functions alone or
\* resets them to the default, depending on the library release; after the
\* loop column j shows format_value if it is the last column or nothing was reset.
Shown(cells, n, resets) ==
    [i \in 1..Len(cells) |->
       [j \in 1..n |-> IF resets /\ j # n THEN DefaultFormat(cells[i][j])
                       ELSE format_value(cells[i][j])]]

\* df.select_dtypes(include=np.number): the columns all of whose cells are floats
NumericCols(cells, n) ==
    { j \in 1..n : \A i \in 1..Len(cells) : cells[i][j].kind # "list" }

Rows == UNION { [1..k -> Tokens] : k \in 1..MaxFields }

Inputs ==
    { [n |-> n, rows |-> rows, gradient |-> g] :
        n \in 1..MaxCols,
        rows \in UNION { [1..k -> Rows] : k \in 0..MaxRows },
        g \in BOOLEAN }

NotCalled == [status |-> "none"]

print_data_from_txt ==
    /\ result = NotCalled
    /\ \E resets \in BOOLEAN :
         LET data == [i \in 1..Len(input.rows) |-> ConvertRow(input.rows[i])]
             bad == { <<i, j>> \in (1..Len(data)) \X (1..MaxFields + 1) :
                        j <= Len(data[i]) /\ IsError(data[i][j]) }
             first == CHOOSE c \in bad :
                        \A d \in bad : c[1] < d[1] \/ (c[1] = d[1] /\ c[2] <= d[2])
             cells == Frame(data, input.n)
         IN  IF bad # {}
             THEN result' = [status |-> "error", type |-> data[first[1]][first[2]].type]
             ELSE IF ~FrameAccepts(data, input.n)
             THEN result' = [status |-> "error", type |-> "ValueError"]
             ELSE result' = [status |-> "ok",
                             cells |-> cells,
                             shown |-> Shown(cells, input.n, resets /\ input.n > 1),
                             gradient |-> IF input.gradient
                                          THEN NumericCols(cells, input.n) ELSE {}]
    /\ UNCHANGED <<input, plotVars>>

-----------------------------------------------------------------------------
(* Properties of print_data_from_txt *)

Returned == result.status = "ok"

Called == result.status # "none"

AllTokens == { input.rows[i][j] : <<i, j>> \in
                 { c \in (1..Len(input.rows)) \X (1..MaxFields + 1) :
                     c[2] <= Len(input.rows[c[1]]) } }

WellFormed ==
    /\ \A i \in 1..Len(input.rows) : Len(input.rows[i]) = input.n
    /\ \A t \in AllTokens : IsFloatLiteral(t)

\* the value with exactly three digits after the decimal point
Fixed3(v) ==
    LET m == Round3(v)
    IN  Sign(m) \o IntToDigits(Abs(m) \div 1000) \o <<".">> \o Padded(Abs(m) % 1000, 3)

\* C4: a file with a data row whose field count differs from the header's is
\* rejected, whatever the other rows look like.
C4_RaggedRowsRejected ==
    (Called /\ \E i \in 1..Len(input.rows) : Len(input.rows[i]) # input.n)
      => result.status = "error"

\* C5: a file with a data token that is neither a float literal nor exactly
\* inf is rejected.
C5_BadTokensRejected ==
    (Called /\ \E t \in AllTokens : ~IsFloatLiteral(t))
      => result.status = "error"

\* C6: for a well-formed file every numeric cell is shown rounded to three
\* decimals with exactly three digits after the point, and every +inf cell as inf.
C6_CellsShownWithThreeDecimals ==
    (Returned /\ WellFormed)
      => \A i \in 1..Len(result.cells) : \A j \in 1..input.n :
           LET x == result.cells[i][j]
           IN  /\ x.kind = "num" => result.shown[i][j] = Fixed3(x.v)
               /\ x = PosInf => result.shown[i][j] = INF

-----------------------------------------------------------------------------


InitTableIdle ==
    /\ input = [n |-> 0, rows |-> << >>, gradient |-> FALSE]
    /\ result = NotCalled

Init == InitPlot /\ InitTableIdle

Next == Construct \/ create_figure \/ add_plot \/ add_scatter \/ save

Spec == Init /\ [][Next]_vars

\* print_data_from_txt on its own: no GraphPlotter is involved
InitPlotIdle ==
    /\ constructed = "new"
    /\ base_dir = DefaultBaseDir
    /\ current_figure = None
    /\ current_axes = None
    /\ figs = << >>
    /\ registry = {}
    /\ nfigs = 0
    /\ dirs = {Cwd}
    /\ files = NoFile
    /\ last = Ok("start")
    /\ sinceCreate = << >>

InitTable == InitPlotIdle /\ input \in Inputs /\ result = NotCalled

NextTable == print_data_from_txt

SpecTable == InitTable /\ [][NextTable]_vars

====
